---- MODULE Spec2Model ----
(***************************************************************************)
(* Model of src/main.py: the concurrent subdomain resolution engine.       *)
(*   main             validates the candidate nameservers, then runs       *)
(*                    process_domain for each configured domain            *)
(*   process_domain   slices the wordlist into batches                     *)
(*   process_batch    runs one task per (nameserver, subdomain) pair under *)
(*                    an asyncio.Semaphore, then appends the unique hits    *)
(*   check_subdomain  A query, then the MX and CNAME probes                *)
(* The environment is a fresh output directory: no <domain>.txt exists     *)
(* when the run starts.                                                    *)
(***************************************************************************)
EXTENDS Integers, Sequences, FiniteSets, TLC

\* ------------------------------------------------------------- bounds
MaxThreads == 2         \* largest threads setting
MaxBatchSize == 2       \* largest batch_size
MaxWordlist == 6        \* longest wordlist that is only sliced (SpecPartition)
MaxParts == 5           \* most dot-separated parts of a nameservers line (SpecValidIp)

Range(s) == {s[i] : i \in DOMAIN s}

\* the names the lists are drawn from, in order of first use
Addresses == <<"8.8.8.8", "1.1.1.1">>
Labels == <<"www", "mail">>
DomainNames == <<"a.com", "b.org">>

\* the lists over `names` of length at most n, repetitions included, one list for
\* each renaming (the names are opaque to the program): the k-th new name of a
\* list is names[k]
ListsUpTo(names, n) ==
    LET Elems == {names[i] : i \in DOMAIN names}
        Seen(s, i) == {s[k] : k \in 1..(i - 1)}
        NextNew(s, i) == Cardinality(Seen(s, i)) + 1
    IN {s \in UNION {[1..k -> Elems] : k \in 0..n} :
          \A i \in DOMAIN s :
             \/ s[i] \in Seen(s, i)
             \/ NextNew(s, i) <= Len(names) /\ s[i] = names[NextNew(s, i)]}

\* ------------------------------------------------- exceptions (dnspython)
\* the outcomes of resolver.resolve: an answer, or an exception class
Outcomes == {"ok", "NXDOMAIN", "NoNameservers", "DNSException", "Timeout", "OSError"}

\* the base class of each exception class
BaseClass(c) ==
    CASE c = "NXDOMAIN" -> "DNSException"
      [] c = "NoNameservers" -> "DNSException"
      [] c = "Timeout" -> "DNSException"
      [] c = "DNSException" -> "Exception"
      [] c = "OSError" -> "Exception"
      [] OTHER -> "BaseException"

RECURSIVE IsSubclass(_, _)
IsSubclass(c, k) ==
    IF c = k THEN TRUE
    ELSE IF c = "BaseException" THEN FALSE
    ELSE IsSubclass(BaseClass(c), k)

\* except (k1, k2, ...): the clause catches exc iff exc is an instance of one
Catches(classes, exc) == \E k \in classes : IsSubclass(exc, k)

\* line 75: except (DNSException, Timeout)
validate_except == {"DNSException", "Timeout"}
\* mutant: the except clause of line 102 without DNSException
check_except_narrow == {"NXDOMAIN", "NoNameservers"}
\* line 102: except (NXDOMAIN, NoNameservers, DNSException)
check_except == {"NXDOMAIN", "NoNameservers", "DNSException"}
\* lines 92, 98: except (NXDOMAIN, NoNameservers, DNSException)
probe_except == {"NXDOMAIN", "NoNameservers", "DNSException"}

\* what a query's outcome is, whatever the code does with it: an answer ("ok"), a
\* DNS failure (non-existent domain, no nameservers, generic DNS exception,
\* timeout: "failed") or an error of another class ("error")
Kind(out) ==
    IF out = "ok" THEN "ok"
    ELSE IF out \in {"NXDOMAIN", "NoNameservers", "DNSException", "Timeout"} THEN "failed"
    ELSE "error"

\* what the MX and CNAME probes of a task have met so far: nothing yet ("none"),
\* answers and DNS failures only ("clean"), or an error of another class ("error")
ProbeKind(before, out) ==
    IF before = "error" \/ Kind(out) = "error" THEN "error" ELSE "clean"

\* ------------------------------------------------------ pure helpers
Min(a, b) == IF a < b THEN a ELSE b

\* mutant: range(0, len(subdomains) - 1, batch_size)
RECURSIVE PyRangeShort(_, _, _)
PyRangeShort(start, stop, step) ==
    IF start >= stop - 1 THEN <<>>
    ELSE <<start>> \o PyRangeShort(start + step, stop, step)

\* range(start, stop, step) as a list, step > 0
RECURSIVE PyRange(_, _, _)
PyRange(start, stop, step) ==
    IF start >= stop THEN <<>>
    ELSE <<start>> \o PyRange(start + step, stop, step)

\* s[i:j] for 0 <= i, with j clamped to len(s)
Slice(s, i, j) == SubSeq(s, i + 1, Min(j, Len(s)))

\* line 135: [subdomains[i:i + batch_size] for i in range(0, len(subdomains), batch_size)]
Batches(subs, size) ==
    LET starts == PyRange(0, Len(subs), size)
    IN [k \in 1..Len(starts) |-> Slice(subs, starts[k], starts[k] + size)]

\* line 83: f"{subdomain}.{domain}"
FullSubdomain(subdomain, domain) == subdomain \o "." \o domain

\* mutant: the last pair of the cross product gets no task
TaskListSkipsLast(valid, batch) ==
    [k \in 1..(Len(valid) * Len(batch) - 1) |->
        [nameserver |-> valid[((k - 1) \div Len(batch)) + 1],
         subdomain |-> batch[((k - 1) % Len(batch)) + 1],
         st |-> "wait",
         a |-> "none",
         p |-> "none",
         nA |-> 0]]

\* mutant: every task is given the first valid nameserver
TaskListFirstNameserver(valid, batch) ==
    [k \in 1..(Len(valid) * Len(batch)) |->
        [nameserver |-> valid[1],
         subdomain |-> batch[((k - 1) % Len(batch)) + 1],
         st |-> "wait",
         a |-> "none",
         p |-> "none",
         nA |-> 0]]

\* lines 119-121: one task per nameserver and per subdomain of the batch
TaskList(valid, batch) ==
    [k \in 1..(Len(valid) * Len(batch)) |->
        [nameserver |-> valid[((k - 1) \div Len(batch)) + 1],
         subdomain |-> batch[((k - 1) % Len(batch)) + 1],
         st |-> "wait",
         a |-> "none",
         p |-> "none",
         nA |-> 0]]

\* every ordering of a set as a sequence (the iteration order of a Python set)
Orderings(S) ==
    {s \in [1..Cardinality(S) -> S] : \A i, j \in 1..Cardinality(S) : s[i] = s[j] => i = j}

NoFile == [exists |-> FALSE, lines |-> <<>>]

\* ------------------------------------------------------ is_valid_ip
\* a string is the list of its characters; the character U+00B2 is "SUPERSCRIPT TWO"
DecimalDigits == {"0", "1", "2", "3", "4", "5", "6", "7", "8", "9"}

\* the characters c with c.isdigit(): the decimal digits and the digits that
\* are no decimals, such as the superscripts
DigitChars == DecimalDigits \cup {"SUPERSCRIPT TWO"}

DigitValue(c) ==
    CASE c = "0" -> 0 [] c = "1" -> 1 [] c = "2" -> 2 [] c = "3" -> 3 [] c = "4" -> 4
      [] c = "5" -> 5 [] c = "6" -> 6 [] c = "7" -> 7 [] c = "8" -> 8 [] c = "9" -> 9

\* str.split("."): the parts between the dots, one part at least
RECURSIVE Split(_)
Split(str) ==
    IF \A i \in DOMAIN str : str[i] # "." THEN <<str>>
    ELSE LET d == CHOOSE i \in DOMAIN str :
                     str[i] = "." /\ \A j \in 1..(i - 1) : str[j] # "."
         IN <<SubSeq(str, 1, d - 1)>> \o Split(SubSeq(str, d + 1, Len(str)))

\* str.isdigit(): not empty, and every character a digit
IsDigit(str) == str # <<>> /\ \A i \in DOMAIN str : str[i] \in DigitChars

\* int(str) raises ValueError: the string is empty or a character of it is no
\* decimal digit (a sign, blanks and underscores never get past isdigit)
PyIntRaises(str) == str = <<>> \/ \E i \in DOMAIN str : str[i] \notin DecimalDigits

\* int(str) for a string of decimal digits
RECURSIVE PyInt(_)
PyInt(str) ==
    IF str = <<>> THEN 0
    ELSE 10 * PyInt(SubSeq(str, 1, Len(str) - 1)) + DigitValue(str[Len(str)])

\* line 54: part.isdigit() and 0 <= int(part) <= 255
OctetOk(part) ==
    IF ~IsDigit(part) THEN "False"
    ELSE IF PyIntRaises(part) THEN "ValueError"
    ELSE IF 0 <= PyInt(part) /\ PyInt(part) <= 255 THEN "True" ELSE "False"

\* line 54: all(... for part in parts): the parts in order, up to the first
\* that is not true
RECURSIVE AllOctetsOk(_)
AllOctetsOk(parts) ==
    IF parts = <<>> THEN "True"
    ELSE IF OctetOk(Head(parts)) = "True" THEN AllOctetsOk(Tail(parts))
    ELSE OctetOk(Head(parts))

\* lines 52-54: "True", "False", or "ValueError" when int raises
is_valid_ip(ip) ==
    LET parts == Split(ip)
    IN IF Len(parts) # 4 THEN "False" ELSE AllOctetsOk(parts)

\* the parts the lines of the nameservers file are made of
LineParts ==
    {<<>>, <<"0">>, <<"2", "5", "5">>, <<"2", "5", "6">>, <<"a">>, <<"+", "1">>,
     <<"SUPERSCRIPT TWO">>}

RECURSIVE JoinDots(_)
JoinDots(parts) ==
    IF Len(parts) = 1 THEN parts[1]
    ELSE parts[1] \o <<".">> \o JoinDots(Tail(parts))

\* the lines "1.2.3", "1.2.3.4.5", "1.2.3.256" and "a.b.c.d"
NamedLines ==
    {<<"1", ".", "2", ".", "3">>,
     <<"1", ".", "2", ".", "3", ".", "4", ".", "5">>,
     <<"1", ".", "2", ".", "3", ".", "2", "5", "6">>,
     <<"a", ".", "b", ".", "c", ".", "d">>}

\* the lines of the nameservers file that is_valid_ip is tried on
Lines ==
    NamedLines \cup
    {JoinDots(ps) : ps \in UNION {[1..k -> LineParts] : k \in 1..MaxParts}}

\* ------------------------------------------------------------- state
VARIABLES
    nameservers,        \* load_nameservers(...): the candidate resolvers
    subdomains,         \* load_subdomains(...): the wordlist
    domains,            \* config: the domains, in order
    threads,            \* config: the concurrency cap
    batch_size,         \* the batch size (line 30 sets 100; here any of 1..MaxBatchSize)
    pc,                 \* position of main / process_domain / process_batch
    outcome,            \* how the run ended: "none", "done", "novalid", "crashed"
    probe,              \* per nameserver index: the state of its validate_nameserver future
    valid_nameservers,  \* main's list of confirmed resolvers
    dom,                \* index in domains of the domain being processed (0: none yet)
    subdomain_batches,  \* process_domain's batches
    batch_num,          \* index of the batch being processed (0: none yet)
    tasks,              \* process_batch's tasks
    sem,                \* value of process_batch's semaphore
    unique_subdomains,  \* process_batch's set of hits
    files,              \* the output directory: per domain name, its <domain>.txt
    results,            \* history: per domain name, the unique sets of its gathered batches
    queried,            \* history: a query for a subdomain has been issued
    line,               \* load_nameservers: a stripped line of the nameservers file
    line_valid          \* load_nameservers: is_valid_ip(line) ("none": not called yet)

vars == <<nameservers, subdomains, domains, threads, batch_size, pc, outcome, probe,
          valid_nameservers, dom, subdomain_batches, batch_num, tasks, sem,
          unique_subdomains, files, results, queried, line, line_valid>>

\* what is set before main starts
config == <<nameservers, subdomains, domains, threads, batch_size, line, line_valid>>
batch_vars == <<tasks, sem, unique_subdomains>>
domain_vars == <<dom, subdomain_batches, batch_num>>

Init ==
    /\ nameservers \in ListsUpTo(Addresses, Len(Addresses))
    /\ subdomains \in ListsUpTo(Labels, Len(Labels))
    /\ domains \in ListsUpTo(DomainNames, Len(DomainNames))
    /\ threads \in 0..MaxThreads
    /\ batch_size \in 1..MaxBatchSize
    /\ pc = "Idle"
    /\ outcome = "none"
    /\ probe = [i \in 1..Len(nameservers) |-> "queued"]
    /\ valid_nameservers = <<>>
    /\ dom = 0
    /\ subdomain_batches = <<>>
    /\ batch_num = 0
    /\ tasks = <<>>
    /\ sem = 0
    /\ unique_subdomains = {}
    /\ files = [d \in Range(DomainNames) |-> NoFile]
    /\ results = [d \in Range(DomainNames) |-> <<>>]
    /\ queried = FALSE
    /\ line = <<>>
    /\ line_valid = "none"


\* ------------------------------------------------------ task helpers
\* mutant: an off-by-one guard lets one task too many in
AcquirableOffByOne(value) == value >= 0

\* asyncio.Semaphore.acquire: the caller proceeds only while the value is positive
Acquirable(value) == value > 0

\* mutant: the set is replaced by the last hit instead of extended
AddHitOverwrite(set, result) == {result}

\* line 117: unique_subdomains.add(result)
AddHit(set, result) == set \cup {result}

\* mutant: the file is opened only when there is a line to write
AppendLinesIfAny(file, lines) ==
    IF lines = <<>> THEN file ELSE [exists |-> TRUE, lines |-> file.lines \o lines]

\* mutant: open(output_file, 'w') truncates the file at every batch
AppendLinesTruncating(file, lines) == [exists |-> TRUE, lines |-> lines]

\* mutant: a hostname already in the file is not written again
AppendLinesOnlyNew(file, lines) ==
    LET IsNew(h) == h \notin Range(file.lines)
    IN [exists |-> TRUE, lines |-> file.lines \o SelectSeq(lines, IsNew)]

\* lines 126-128: open(output_file, 'a') creates the file if absent and appends
AppendLines(file, lines) == [exists |-> TRUE, lines |-> file.lines \o lines]

\* mutant: the except clause of line 102 passes over the failure (no return None)
AfterAIgnoresFailure(out) ==
    IF out = "ok" \/ Catches(check_except, out) THEN "MX" ELSE "raised"

\* lines 87, 102-104: the state of a task after its A query ended with `out`
AfterA(out) ==
    IF out = "ok" THEN "MX"
    ELSE IF Catches(check_except, out) THEN "miss"
    ELSE "raised"

\* mutant: the probe is not wrapped in its own try: a DNS failure of the probe
\* reaches the except clause of line 102
AfterProbeUnwrapped(out, next) ==
    IF out = "ok" THEN next
    ELSE IF Catches(check_except, out) THEN "miss"
    ELSE "raised"

\* lines 90-99: the state of a task after its MX or CNAME probe ended with `out`;
\* a probe's caught exception is passed over, any other reaches line 102
AfterProbe(out, next) ==
    IF out = "ok" \/ Catches(probe_except, out) THEN next
    ELSE IF Catches(check_except, out) THEN "miss"
    ELSE "raised"

\* mutant: the except branch returns the nameserver too
ValidateResultAlways(out) ==
    IF out = "ok" \/ Catches(validate_except, out) THEN "nameserver" ELSE "raise"

\* lines 71-77: what validate_nameserver returns ("raise": the exception escapes)
ValidateResult(out) ==
    IF out = "ok" THEN "nameserver"
    ELSE IF Catches(validate_except, out) THEN "None"
    ELSE "raise"

\* mutant: the tasks are started and gather is not awaited
AllReturnedNotAwaited(states) == TRUE

\* mutant: gather(*tasks, return_exceptions=True)
AllReturnedOrRaised(states) == states \subseteq {"hit", "miss", "raised"}

\* line 123: gather(*tasks) returns once every task has returned
AllReturned(states) == states \subseteq {"hit", "miss"}

\* mutant: the check of line 153 is missing
NoneValidUnchecked(valid) == FALSE

\* line 153: not valid_nameservers
NoneValid(valid) == valid = <<>>

InFlight == {t \in DOMAIN tasks : tasks[t].st \in {"A", "MX", "CNAME"}}
Waiting == {t \in DOMAIN tasks : tasks[t].st = "wait"}
Raised == {t \in DOMAIN tasks : tasks[t].st = "raised"}

Running == {i \in DOMAIN probe : probe[i] = "running"}
Queued == {i \in DOMAIN probe : probe[i] = "queued"}

\* mutant: the semaphore is acquired by hand and the path that returns None
\* does not release it
LeavesButMiss(st) == st \in {"hit", "raised", "cancelled"}

\* the task leaves `async with sem` (normally or by an exception): release
Leaves(st) == st \in {"hit", "miss", "raised", "cancelled"}

\* --------------------------------------------------------- main: validation
\* lines 142-147: the executor is built and every nameserver is submitted;
\* ThreadPoolExecutor(max_workers <= 0) raises ValueError
StartMain ==
    /\ pc = "Idle"
    /\ IF threads >= 1
       THEN pc' = "Validating" /\ outcome' = outcome
       ELSE pc' = "Terminated" /\ outcome' = "crashed"
    /\ UNCHANGED <<config, probe, valid_nameservers, domain_vars, batch_vars, files, results, queried>>

\* a worker thread of the executor takes the next queued validate_nameserver call
ProbeStart ==
    /\ pc \in {"Validating", "ValidatingRaise"}
    /\ Queued # {}
    /\ Cardinality(Running) < threads
    /\ LET i == CHOOSE i \in Queued : \A j \in Queued : i <= j
       IN probe' = [probe EXCEPT ![i] = "running"]
    /\ UNCHANGED <<config, pc, outcome, valid_nameservers, domain_vars, batch_vars, files, results, queried>>

\* lines 68-77, 148-151: a probe ends and as_completed hands its future to main
ProbeDone(i, out) ==
    /\ pc \in {"Validating", "ValidatingRaise"}
    /\ i \in Running
    /\ probe' = [probe EXCEPT ![i] = Kind(out)]
    /\ IF pc = "Validating"
       THEN CASE ValidateResult(out) = "nameserver" ->
                    /\ valid_nameservers' = Append(valid_nameservers, nameservers[i])
                    /\ pc' = pc
              [] ValidateResult(out) = "None" ->
                    UNCHANGED <<valid_nameservers, pc>>
              [] OTHER ->
                    /\ pc' = "ValidatingRaise"
                    /\ UNCHANGED valid_nameservers
       ELSE UNCHANGED <<valid_nameservers, pc>>
    /\ UNCHANGED <<config, outcome, domain_vars, batch_vars, files, results, queried>>

\* lines 146-155: the executor has shut down (every probe ended); main returns
\* when no nameserver is valid, and dies when future.result() raised
ValidationEnd ==
    /\ pc \in {"Validating", "ValidatingRaise"}
    /\ Queued = {} /\ Running = {}
    /\ IF pc = "ValidatingRaise"
       THEN pc' = "Terminated" /\ outcome' = "crashed"
       ELSE IF NoneValid(valid_nameservers)
            THEN pc' = "Terminated" /\ outcome' = "novalid"
            ELSE pc' = "Domains" /\ outcome' = outcome
    /\ UNCHANGED <<config, probe, valid_nameservers, domain_vars, batch_vars, files, results, queried>>

\* ------------------------------------------------- main / process_domain
\* lines 158-160, 131-135: the next domain, its batches; or the end of main
NextDomain ==
    /\ pc = "Domains"
    /\ IF dom < Len(domains)
       THEN /\ dom' = dom + 1
            /\ subdomain_batches' = Batches(subdomains, batch_size)
            /\ batch_num' = 0
            /\ pc' = "Batches"
            /\ outcome' = outcome
       ELSE /\ pc' = "Terminated"
            /\ outcome' = "done"
            /\ UNCHANGED domain_vars
    /\ UNCHANGED <<config, probe, valid_nameservers, batch_vars, files, results, queried>>

\* lines 138-139, 107-123: the next batch: a new set, a new semaphore, the tasks
NextBatch ==
    /\ pc = "Batches"
    /\ IF batch_num < Len(subdomain_batches)
       THEN /\ batch_num' = batch_num + 1
            /\ unique_subdomains' = {}
            /\ sem' = threads
            /\ tasks' = TaskList(valid_nameservers, subdomain_batches[batch_num + 1])
            /\ pc' = "Gather"
       ELSE /\ pc' = "Domains"
            /\ UNCHANGED <<batch_num, batch_vars>>
    /\ UNCHANGED <<config, outcome, probe, valid_nameservers, dom, subdomain_batches, files, results, queried>>

\* ------------------------------------------------------ process_batch
\* lines 113-115, 80-87: the first waiting task acquires the semaphore and
\* issues its A query
TaskAcquire ==
    /\ pc = "Gather"
    /\ Waiting # {}
    /\ Acquirable(sem)
    /\ LET t == CHOOSE t \in Waiting : \A u \in Waiting : t <= u
       IN tasks' = [tasks EXCEPT ![t].st = "A", ![t].nA = @ + 1]
    /\ sem' = sem - 1
    /\ queried' = TRUE
    /\ UNCHANGED <<config, pc, outcome, probe, valid_nameservers, domain_vars,
                   unique_subdomains, files, results>>

\* lines 87, 102-104: the A query of task t ends
QueryA(t, out) ==
    /\ pc = "Gather"
    /\ t \in DOMAIN tasks
    /\ tasks[t].st = "A"
    /\ tasks' = [tasks EXCEPT ![t].st = AfterA(out), ![t].a = Kind(out)]
    /\ sem' = IF Leaves(AfterA(out)) THEN sem + 1 ELSE sem
    /\ UNCHANGED <<config, pc, outcome, probe, valid_nameservers, domain_vars,
                   unique_subdomains, files, results, queried>>

\* lines 90-93: the MX probe of task t ends
QueryMX(t, out) ==
    /\ pc = "Gather"
    /\ t \in DOMAIN tasks
    /\ tasks[t].st = "MX"
    /\ tasks' = [tasks EXCEPT ![t].st = AfterProbe(out, "CNAME"),
                             ![t].p = ProbeKind(@, out)]
    /\ sem' = IF Leaves(AfterProbe(out, "CNAME")) THEN sem + 1 ELSE sem
    /\ UNCHANGED <<config, pc, outcome, probe, valid_nameservers, domain_vars,
                   unique_subdomains, files, results, queried>>

\* lines 96-101, 116-117: the CNAME probe of task t ends; check_subdomain returns
\* the full name and task_wrapper adds it to the set
QueryCNAME(t, out) ==
    /\ pc = "Gather"
    /\ t \in DOMAIN tasks
    /\ tasks[t].st = "CNAME"
    /\ tasks' = [tasks EXCEPT ![t].st = AfterProbe(out, "hit"),
                             ![t].p = ProbeKind(@, out)]
    /\ sem' = IF Leaves(AfterProbe(out, "hit")) THEN sem + 1 ELSE sem
    /\ unique_subdomains' =
          IF AfterProbe(out, "hit") = "hit"
          THEN AddHit(unique_subdomains,
                      FullSubdomain(tasks[t].subdomain, domains[dom]))
          ELSE unique_subdomains
    /\ UNCHANGED <<config, pc, outcome, probe, valid_nameservers, domain_vars,
                   files, results, queried>>

\* line 123: every task ended without an exception: gather returns
GatherDone ==
    /\ pc = "Gather"
    /\ AllReturned({tasks[t].st : t \in DOMAIN tasks})
    /\ pc' = "Write"
    /\ results' = [results EXCEPT ![domains[dom]] = Append(@, unique_subdomains)]
    /\ UNCHANGED <<config, outcome, probe, valid_nameservers, domain_vars, batch_vars, files, queried>>

\* line 123, 163: gather re-raises the exception of a task; it leaves
\* process_batch, process_domain and main, and asyncio.run cancels the tasks
\* that are left (a cancelled task leaves `async with sem`)
GatherRaise ==
    /\ pc = "Gather"
    /\ Raised # {}
    /\ pc' = "Terminated"
    /\ outcome' = "crashed"
    /\ tasks' = [t \in DOMAIN tasks |->
                    IF tasks[t].st \in {"wait", "A", "MX", "CNAME"}
                    THEN [tasks[t] EXCEPT !.st = "cancelled"]
                    ELSE tasks[t]]
    /\ sem' = sem + Cardinality(InFlight)
    /\ UNCHANGED <<config, probe, valid_nameservers, domain_vars, unique_subdomains,
                   files, results, queried>>

\* lines 126-129: the set is appended to the domain's file, in the set's order,
\* and process_batch returns; the model keeps the locals of the call (tasks,
\* sem, unique_subdomains) until the next call replaces them
WriteBatch ==
    /\ pc = "Write"
    /\ \E order \in Orderings(unique_subdomains) :
          files' = [files EXCEPT ![domains[dom]] = AppendLines(@, order)]
    /\ pc' = "Batches"
    /\ UNCHANGED <<config, outcome, probe, valid_nameservers, domain_vars, batch_vars,
                   results, queried>>

Next ==
    \/ StartMain
    \/ ProbeStart
    \/ \E i \in DOMAIN probe, out \in Outcomes : ProbeDone(i, out)
    \/ ValidationEnd
    \/ NextDomain
    \/ NextBatch
    \/ TaskAcquire
    \/ \E t \in DOMAIN tasks, out \in Outcomes : QueryA(t, out)
    \/ \E t \in DOMAIN tasks, out \in Outcomes : QueryMX(t, out)
    \/ \E t \in DOMAIN tasks, out \in Outcomes : QueryCNAME(t, out)
    \/ GatherDone
    \/ GatherRaise
    \/ WriteBatch

Spec == Init /\ [][Next]_vars

\* ------------------------------------------------ the run without fatal errors
\* Every query ends with an answer or with an exception of a class the code
\* catches; the threads of the executor and the tasks of the event loop are
\* scheduled as long as one of them can take a step.
RecognizedOutcomes == {out \in Outcomes : Kind(out) # "error"}

NextRecognized ==
    \/ StartMain
    \/ ProbeStart
    \/ \E i \in DOMAIN probe, out \in RecognizedOutcomes : ProbeDone(i, out)
    \/ ValidationEnd
    \/ NextDomain
    \/ NextBatch
    \/ TaskAcquire
    \/ \E t \in DOMAIN tasks, out \in RecognizedOutcomes : QueryA(t, out)
    \/ \E t \in DOMAIN tasks, out \in RecognizedOutcomes : QueryMX(t, out)
    \/ \E t \in DOMAIN tasks, out \in RecognizedOutcomes : QueryCNAME(t, out)
    \/ GatherDone
    \/ WriteBatch

SpecLive == Init /\ [][NextRecognized]_vars /\ WF_vars(NextRecognized)

\* ------------------------------------------- process_domain's slicing alone
\* line 135 on longer wordlists: the batches are computed and nothing is run
InitPartition ==
    /\ nameservers = <<>>
    /\ subdomains \in ListsUpTo(Labels, MaxWordlist)
    /\ domains = <<DomainNames[1]>>
    /\ threads = 1
    /\ batch_size \in 1..MaxBatchSize
    /\ pc = "Slicing"
    /\ outcome = "none"
    /\ probe = <<>>
    /\ valid_nameservers = <<>>
    /\ dom = 1
    /\ subdomain_batches = <<>>
    /\ batch_num = 0
    /\ tasks = <<>>
    /\ sem = 0
    /\ unique_subdomains = {}
    /\ files = [d \in Range(DomainNames) |-> NoFile]
    /\ results = [d \in Range(DomainNames) |-> <<>>]
    /\ queried = FALSE
    /\ line = <<>>
    /\ line_valid = "none"

SliceWordlist ==
    /\ pc = "Slicing"
    /\ subdomain_batches' = Batches(subdomains, batch_size)
    /\ pc' = "Sliced"
    /\ UNCHANGED <<config, outcome, probe, valid_nameservers, dom, batch_num, batch_vars,
                   files, results, queried>>

NextPartition == SliceWordlist

SpecPartition == InitPartition /\ [][NextPartition]_vars

\* --------------------------------------------- load_nameservers' filter alone
\* line 58: is_valid_ip on one stripped line of the nameservers file
InitValidIp ==
    /\ nameservers = <<>>
    /\ subdomains = <<>>
    /\ domains = <<>>
    /\ threads = 1
    /\ batch_size = 1
    /\ pc = "Loading"
    /\ outcome = "none"
    /\ probe = <<>>
    /\ valid_nameservers = <<>>
    /\ dom = 0
    /\ subdomain_batches = <<>>
    /\ batch_num = 0
    /\ tasks = <<>>
    /\ sem = 0
    /\ unique_subdomains = {}
    /\ files = [d \in Range(DomainNames) |-> NoFile]
    /\ results = [d \in Range(DomainNames) |-> <<>>]
    /\ queried = FALSE
    /\ line \in Lines
    /\ line_valid = "none"

CheckLine ==
    /\ pc = "Loading"
    /\ line_valid' = is_valid_ip(line)
    /\ pc' = "Loaded"
    /\ UNCHANGED <<nameservers, subdomains, domains, threads, batch_size, line, outcome,
                   probe, valid_nameservers, domain_vars, batch_vars, files, results,
                   queried>>

NextValidIp == CheckLine

SpecValidIp == InitValidIp /\ [][NextValidIp]_vars


\* ================================================================ claims
\* the domain being processed, once one is
Domain == domains[dom]

\* the tasks of the current batch that returned a full name
Hits == {t \in DOMAIN tasks : tasks[t].st = "hit"}

\* how often x occurs in the list s
Count(s, x) == Cardinality({i \in DOMAIN s : s[i] = x})

\* the batch being processed has not been written yet
BatchOpen == pc \in {"Gather", "Write"} \/ (outcome = "crashed" /\ dom >= 1)

\* the number of batches whose write to <d>.txt has ended
WrittenCount(d) ==
    Cardinality({i \in 1..(dom - 1) : domains[i] = d}) * Len(subdomain_batches)
    + (IF dom >= 1 /\ domains[dom] = d
       THEN (IF BatchOpen THEN batch_num - 1 ELSE batch_num)
       ELSE 0)

\* lines is, chunk by chunk, one ordering of each set of sets
RECURSIVE FileMatches(_, _)
FileMatches(lines, sets) ==
    IF sets = <<>> THEN lines = <<>>
    ELSE LET n == Cardinality(Head(sets))
         IN /\ Len(lines) >= n
            /\ Range(SubSeq(lines, 1, n)) = Head(sets)
            /\ FileMatches(SubSeq(lines, n + 1, Len(lines)), Tail(sets))

RECURSIVE SumCard(_)
SumCard(sets) == IF sets = <<>> THEN 0 ELSE Cardinality(Head(sets)) + SumCard(Tail(sets))

\* the lines of <d>.txt after those of the batches before the last gathered one
LastChunk(d) ==
    LET before == SumCard(SubSeq(results[d], 1, Len(results[d]) - 1))
    IN SubSeq(files[d].lines, before + 1, Len(files[d].lines))

\* the hostnames of the current batch whose A query succeeded on some nameserver
Confirmed ==
    {FullSubdomain(c, Domain) :
        c \in {x \in Range(subdomain_batches[batch_num]) :
                 \E t \in DOMAIN tasks : tasks[t].subdomain = x /\ tasks[t].a = "ok"}}

\* C1: while a batch runs, the number of tasks inside `async with sem` (running
\* check_subdomain) never exceeds threads, however many tasks are queued.
C1_InFlightAtMostThreads == Cardinality(InFlight) <= threads

\* C1 witness: the cap is reached while further tasks wait
C1_Witness ==
    /\ pc = "Gather"
    /\ Cardinality(InFlight) = threads
    /\ Waiting # {}
    /\ Len(tasks) = 4

\* C2: the lines a batch's write appends hold each hostname returned by a task
\* of the batch exactly once, however many tasks returned it.
C2_EachHitWrittenOnce ==
    [][pc = "Write" /\ pc' = "Batches" =>
        LET old == files[Domain].lines
            new == files'[Domain].lines
            appended == SubSeq(new, Len(old) + 1, Len(new))
        IN /\ SubSeq(new, 1, Len(old)) = old
           /\ \A t \in Hits :
                 Count(appended, FullSubdomain(tasks[t].subdomain, Domain)) = 1]_vars

\* C2 witness: a written batch in which two tasks with different nameservers
\* returned the same hostname, which is in the file once
C2_Witness ==
    /\ pc = "Batches"
    /\ \E t, u \in Hits :
          /\ tasks[t].nameserver # tasks[u].nameserver
          /\ tasks[t].subdomain = tasks[u].subdomain
          /\ Count(files[Domain].lines, FullSubdomain(tasks[t].subdomain, Domain)) = 1

\* C3: when no task of a batch raised, the set gathered and the set of lines
\* written are exactly the hostnames whose A query succeeded on at least one
\* valid nameserver, whatever the order in which the tasks ended.
C3_WrittenIsConfirmed ==
    /\ pc = "Write" => unique_subdomains = Confirmed
    /\ (pc = "Batches" /\ batch_num >= 1) =>
          /\ Range(LastChunk(Domain)) = Confirmed
          /\ Len(LastChunk(Domain)) = Cardinality(Confirmed)

\* C3 witness: a written batch with two hostnames confirmed, one of them by one
\* nameserver only (the other nameserver's A query failed)
C3_Witness ==
    /\ pc = "Batches"
    /\ batch_num >= 1
    /\ Cardinality(Confirmed) = 2
    /\ \E t, u \in DOMAIN tasks :
          /\ tasks[t].subdomain = tasks[u].subdomain
          /\ tasks[t].a = "ok"
          /\ tasks[u].a = "failed"

\* C4: whenever the run stops between the end of one write and the start of
\* the next (a task's unrecognized error included), each domain's file holds
\* exactly the unique sets of the batches written so far, batch by batch, and
\* nothing of the batch in progress.
C4_FileIsWrittenBatches ==
    \A d \in Range(DomainNames) :
       /\ WrittenCount(d) <= Len(results[d])
       /\ FileMatches(files[d].lines, SubSeq(results[d], 1, WrittenCount(d)))

\* C4 witness: the run died in the second batch of a domain, whose first batch
\* wrote a hostname, with a hit of the second batch gathered and not written
C4_Witness ==
    /\ pc = "Terminated"
    /\ outcome = "crashed"
    /\ batch_num = 2
    /\ unique_subdomains # {}
    /\ Len(files[Domain].lines) = 1

\* C5: when validation ends with no valid nameserver, the run is over: no
\* domain was processed, no subdomain was queried and no output file exists.
C5_NoValidNameserverStops ==
    (pc \notin {"Idle", "Validating", "ValidatingRaise"}
        /\ outcome # "crashed" /\ valid_nameservers = <<>>) =>
       /\ pc = "Terminated"
       /\ outcome = "novalid"
       /\ dom = 0
       /\ batch_num = 0
       /\ ~queried
       /\ \A d \in Range(DomainNames) : ~files[d].exists

\* C5 witness: two nameservers, none valid, with domains and a wordlist configured
C5_Witness ==
    /\ pc = "Terminated"
    /\ outcome = "novalid"
    /\ Len(nameservers) = 2
    /\ domains # <<>>
    /\ subdomains # <<>>

\* C6: once validation has ended without an unrecognized error, the valid
\* nameservers are exactly the candidates whose probe got an answer: none that
\* failed, none dropped, none that was not a candidate, whatever the order in
\* which the probes ended.
C6_ValidationIsFilter ==
    (pc \notin {"Idle", "Validating", "ValidatingRaise"}
        /\ \A i \in DOMAIN probe : probe[i] \in {"ok", "failed"}) =>
       /\ Range(valid_nameservers) = {nameservers[i] : i \in {j \in DOMAIN probe : probe[j] = "ok"}}
       /\ Len(valid_nameservers) = Cardinality({j \in DOMAIN probe : probe[j] = "ok"})

\* C6 witness: of two different candidates the first failed and the second is
\* the valid pool
C6_Witness ==
    /\ pc = "Domains"
    /\ Len(nameservers) = 2
    /\ nameservers[1] # nameservers[2]
    /\ probe = <<"failed", "ok">>
    /\ valid_nameservers = <<nameservers[2]>>

\* C7: a hostname is in a domain's file once per written batch that confirmed
\* it: confirmed in two batches, it is written twice.
C7_OncePerBatch ==
    \A d \in Range(DomainNames) :
       \A h \in Range(files[d].lines) \cup UNION Range(results[d]) :
          Count(files[d].lines, h) =
             Cardinality({i \in 1..WrittenCount(d) : i <= Len(results[d]) /\ h \in results[d][i]})

\* C7 witness: one domain's two batches both confirmed the same hostname, and
\* the file holds it twice
C7_Witness ==
    /\ pc = "Batches"
    /\ batch_num = 2
    /\ Cardinality({i \in 1..dom : domains[i] = Domain}) = 1
    /\ Len(files[Domain].lines) = 2
    /\ files[Domain].lines[1] = files[Domain].lines[2]

\* the least q with q * b >= n
CeilDiv(n, b) == CHOOSE q \in 0..n : q * b >= n /\ (q = 0 \/ (q - 1) * b < n)

RECURSIVE Concat(_)
Concat(ss) == IF ss = <<>> THEN <<>> ELSE Head(ss) \o Concat(Tail(ss))

\* C8: N candidates and batch size B >= 1 give ceil(N/B) batches, all of B
\* candidates but the last, which has N mod B (B when B divides N), and the
\* batches in order make up the candidate list; no candidate, no batch.
C8_Partition ==
    pc = "Sliced" =>
       LET N == Len(subdomains)
           B == batch_size
           m == Len(subdomain_batches)
       IN /\ m = CeilDiv(N, B)
          /\ \A k \in 1..(m - 1) : Len(subdomain_batches[k]) = B
          /\ m > 0 => Len(subdomain_batches[m]) = (IF N % B = 0 THEN B ELSE N % B)
          /\ Concat(subdomain_batches) = subdomains
          /\ N = 0 => m = 0

\* C8 witness: five candidates in batches of two: three batches, the last of one
C8_Witness ==
    /\ pc = "Sliced"
    /\ Len(subdomains) = 5
    /\ batch_size = 2
    /\ Len(subdomain_batches) = 3
    /\ Len(subdomain_batches[3]) = 1

\* C9: a task whose A query met a DNS failure (non-existent domain, no
\* nameservers, generic DNS exception, timeout) returned nothing: it did not
\* raise, it went on to no probe, and no task issues its A query twice.
C9_FailureIsAbsent ==
    \A t \in DOMAIN tasks :
       /\ tasks[t].nA <= 1
       /\ tasks[t].a = "failed" => tasks[t].st = "miss"

\* C9 witness: a batch has ended in which a task's A query failed, the only
\* A query of that task
C9_Witness ==
    /\ pc = "Write"
    /\ \E t \in DOMAIN tasks :
          tasks[t].a = "failed" /\ tasks[t].st = "miss" /\ tasks[t].nA = 1

\* C10: a query that ends with an error outside the DNS failures makes its
\* task raise, and once a task has raised nothing is written, no batch and no
\* domain is started, and the only way on is the death of the run.
C10_ErrorTerminatesRun ==
    [][/\ \A t \in DOMAIN tasks :
             (t \in DOMAIN tasks' /\ tasks[t].st = "A" /\ tasks'[t].a = "error")
                => tasks'[t].st = "raised"
       /\ Raised # {} =>
             /\ files' = files
             /\ dom' = dom
             /\ batch_num' = batch_num
             /\ Raised \subseteq Raised'
             /\ pc' # pc => (pc' = "Terminated" /\ outcome' = "crashed")]_vars

\* C10 witness: the run died of a task that raised, with a hit gathered and
\* not written, a later batch and a later domain left
C10_Witness ==
    /\ pc = "Terminated"
    /\ outcome = "crashed"
    /\ Raised # {}
    /\ unique_subdomains # {}
    /\ files[Domain].lines = <<>>
    /\ batch_num < Len(subdomain_batches)
    /\ dom < Len(domains)

\* what check_subdomain without the MX and CNAME probes gives for an A query
\* of kind k: the full name, None, or the error
NoProbeVerdict(k) ==
    CASE k = "ok" -> "hit"
      [] k = "failed" -> "miss"
      [] OTHER -> "raised"

\* the tasks of the current batch whose check_subdomain has ended
Ended == {t \in DOMAIN tasks : tasks[t].st \in {"hit", "miss", "raised"}}

\* C11 (as claimed): whatever the MX and CNAME probes meet, every task ends as
\* it would without them.
C11_ProbesNeverMatter ==
    \A t \in Ended : tasks[t].st = NoProbeVerdict(tasks[t].a)

\* C11 (amended): as long as the MX and CNAME probes meet answers and DNS
\* failures only, every task ends as it would without the probes, the set
\* gathered is the set of the names whose A query was answered, and a task
\* raised iff an A query met an error.
C11_CleanProbesNeverMatter ==
    (\A t \in DOMAIN tasks : tasks[t].p # "error") =>
       /\ \A t \in Ended : tasks[t].st = NoProbeVerdict(tasks[t].a)
       /\ pc = "Write" =>
             unique_subdomains =
                {FullSubdomain(tasks[t].subdomain, Domain) :
                    t \in {u \in DOMAIN tasks : NoProbeVerdict(tasks[u].a) = "hit"}}
       /\ (pc \in {"Gather", "Terminated"} /\ tasks # <<>>) =>
             (Raised # {} <=> \E t \in DOMAIN tasks : tasks[t].a = "error")

\* C11 witness: a batch gathered with a task whose two probes have ended and
\* that returned the full name
C11_Witness ==
    /\ pc = "Write"
    /\ \E t \in DOMAIN tasks :
          tasks[t].st = "hit" /\ tasks[t].p = "clean" /\ tasks[t].a = "ok"

\* the positions of the dots of a string
Dots(str) == {i \in DOMAIN str : str[i] = "."}

\* the value of a string of decimal digits
RECURSIVE Decimal(_)
Decimal(str) ==
    IF str = <<>> THEN 0
    ELSE 10 * Decimal(SubSeq(str, 1, Len(str) - 1)) + DigitValue(str[Len(str)])

\* the string between two positions is a decimal integer of 0..255
IsOctet(str, from, to) ==
    /\ from <= to
    /\ \A i \in from..to : str[i] \in DecimalDigits
    /\ Decimal(SubSeq(str, from, to)) <= 255

\* a string has exactly four dot-separated parts, each a decimal integer of 0..255
FourOctets(str) ==
    /\ Cardinality(Dots(str)) = 3
    /\ \A i \in Dots(str) \cup {0} :
          LET next == {j \in Dots(str) \cup {Len(str) + 1} : j > i}
              end == CHOOSE j \in next : \A k \in next : j <= k
          IN IsOctet(str, i + 1, end - 1)

\* C12: is_valid_ip returns a boolean for every line, and True iff the line is
\* four dot-separated parts, each an integer of 0..255.
C12_ValidIpExactAndTotal ==
    pc = "Loaded" =>
       /\ line_valid \in {"True", "False"}
       /\ line_valid = "True" <=> FourOctets(line)

\* a batch has completed: gather has returned, and the next batch has not begun
BatchComplete == pc = "Write" \/ (pc = "Batches" /\ batch_num >= 1)

\* C13: a completed batch had |valid nameservers| x |batch| tasks, one per pair
\* of an entry of the valid list and an entry of the batch; each issued its A
\* query exactly once and returned, and the unique set is no larger than the
\* number of tasks.
C13_CrossProductOnce ==
    BatchComplete =>
       LET batch == subdomain_batches[batch_num]
       IN /\ Len(tasks) = Len(valid_nameservers) * Len(batch)
          /\ \A r \in Range(valid_nameservers), c \in Range(batch) :
                Cardinality({t \in DOMAIN tasks :
                                tasks[t].nameserver = r /\ tasks[t].subdomain = c})
                   = Count(valid_nameservers, r) * Count(batch, c)
          /\ \A t \in DOMAIN tasks : tasks[t].nA = 1 /\ tasks[t].st \in {"hit", "miss"}
          /\ Cardinality(unique_subdomains) <= Len(tasks)

\* C13 witness: a completed batch of two nameservers and two labels: four tasks
C13_Witness ==
    /\ pc = "Write"
    /\ Len(tasks) = 4
    /\ Cardinality(Range(valid_nameservers)) = 2
    /\ Cardinality(Range(subdomain_batches[batch_num])) = 2

\* C14: the batches of a domain run one after the other: while the tasks of a
\* batch run, every set gathered before is fully in its file, and between two
\* batches no task is in flight or waiting.
C14_BatchesSequential ==
    /\ pc = "Gather" =>
          \A d \in Range(DomainNames) :
             /\ WrittenCount(d) = Len(results[d])
             /\ FileMatches(files[d].lines, results[d])
    /\ pc \in {"Batches", "Domains"} => (InFlight = {} /\ Waiting = {})

\* C14 witness: a task of a domain's second batch is in flight, and the first
\* batch's hostname is in the file
C14_Witness ==
    /\ pc = "Gather"
    /\ batch_num = 2
    /\ InFlight # {}
    /\ Len(results[Domain]) = 1
    /\ Len(files[Domain].lines) = 1

\* C15: a file changes only in the write of a batch whose tasks have all
\* returned: none in flight, none waiting, every permit of the semaphore back.
C15_WriteAfterAllTasks ==
    [][files' # files =>
          /\ pc = "Write"
          /\ InFlight = {}
          /\ Waiting = {}
          /\ \A t \in DOMAIN tasks : tasks[t].st \in {"hit", "miss"}
          /\ sem = threads]_vars

\* C15 witness: a batch of more tasks than permits has been written
C15_Witness ==
    /\ pc = "Batches"
    /\ batch_num >= 1
    /\ Len(tasks) > threads
    /\ files[Domain].lines # <<>>

\* the engine state of spec section 4.5 that a position of main stands for
EngineState(p) ==
    CASE p = "Idle" -> "Idle"
      [] p \in {"Validating", "ValidatingRaise"} -> "ValidatingResolvers"
      [] p \in {"Domains", "Batches", "Gather", "Write"} -> "ProcessingDomains"
      [] OTHER -> "Terminated"

\* every probe of the validation has ended
ValidationFinished == \A i \in DOMAIN probe : probe[i] \in {"ok", "failed", "error"}

\* every batch of the current domain has been gathered and written
PipelineFinished ==
    /\ pc = "Domains"
    /\ batch_num = Len(subdomain_batches)
    /\ InFlight = {} /\ Waiting = {}
    /\ FileMatches(files[Domain].lines, results[Domain])

\* the first subdomain query follows the validation of every nameserver, and
\* the domains are taken in the configured order, one pipeline after the other
QueriesAndDomainsInOrder ==
    /\ (queried' /\ ~queried) => ValidationFinished
    /\ dom' # dom =>
          /\ dom' = dom + 1
          /\ pc = "Domains" /\ pc' = "Batches"
          /\ dom >= 1 => PipelineFinished

\* C16 (as claimed): the engine changes state only along Idle ->
\* ValidatingResolvers -> Terminated (no valid resolver) and Idle ->
\* ValidatingResolvers -> ProcessingDomains -> Terminated; no subdomain query
\* precedes the end of validation; the domains run in order, one after the other.
C16_OnlyListedTransitions ==
    [][/\ EngineState(pc') # EngineState(pc) =>
             \/ /\ EngineState(pc) = "Idle"
                /\ EngineState(pc') = "ValidatingResolvers"
             \/ /\ EngineState(pc) = "ValidatingResolvers"
                /\ EngineState(pc') = "Terminated"
                /\ valid_nameservers = <<>>
             \/ /\ EngineState(pc) = "ValidatingResolvers"
                /\ EngineState(pc') = "ProcessingDomains"
                /\ valid_nameservers # <<>>
             \/ /\ EngineState(pc) = "ProcessingDomains"
                /\ EngineState(pc') = "Terminated"
       /\ QueriesAndDomainsInOrder]_vars

\* C16 (amended): the same transitions, and from any state the transition to
\* Terminated of a run that dies of an error that is not caught (the executor
\* refusing a pool of no worker, a probe or a task raising an unrecognized
\* error), which may leave valid nameservers unused.
C16_ListedOrFatalTransitions ==
    [][/\ EngineState(pc') # EngineState(pc) =>
             \/ /\ EngineState(pc) = "Idle"
                /\ EngineState(pc') = "ValidatingResolvers"
             \/ /\ EngineState(pc) = "ValidatingResolvers"
                /\ EngineState(pc') = "Terminated"
                /\ valid_nameservers = <<>>
                /\ outcome' = "novalid"
             \/ /\ EngineState(pc) = "ValidatingResolvers"
                /\ EngineState(pc') = "ProcessingDomains"
                /\ valid_nameservers # <<>>
             \/ /\ EngineState(pc) = "ProcessingDomains"
                /\ EngineState(pc') = "Terminated"
                /\ outcome' = "done" => (dom = Len(domains) /\ (dom >= 1 => PipelineFinished))
             \/ /\ EngineState(pc') = "Terminated"
                /\ outcome' = "crashed"
       /\ QueriesAndDomainsInOrder]_vars

\* C16 witness: the run went through validation and two domains with a batch
\* each and ended
C16_Witness ==
    /\ pc = "Terminated"
    /\ outcome = "done"
    /\ dom = 2
    /\ batch_num >= 1
    /\ queried

\* every batch of every configured domain has been gathered and written
AllWritten ==
    /\ dom = Len(domains)
    /\ \A d \in Range(DomainNames) :
          /\ Len(results[d]) = Count(domains, d) * CeilDiv(Len(subdomains), batch_size)
          /\ FileMatches(files[d].lines, results[d])
          /\ (Count(domains, d) > 0 /\ subdomains # <<>>) => files[d].exists

\* C17: when every query ends with a recognized outcome and threads >= 1, the
\* run reaches Terminated; with a valid nameserver it is there only once every
\* batch of every domain has been gathered and written.
C17_Terminates ==
    /\ (threads >= 1) => <>(pc = "Terminated")
    /\ []((pc = "Terminated" /\ valid_nameservers # <<>>) => AllWritten)

\* C17 witness: the run ended after two domains of two batches each
C17_Witness ==
    /\ pc = "Terminated"
    /\ outcome = "done"
    /\ valid_nameservers # <<>>
    /\ Len(domains) = 2
    /\ Len(subdomain_batches) = 2
    /\ \A d \in Range(domains) : files[d].exists

\* C18: a probe that has ended is never run again; once validation is over
\* neither the probes nor valid_nameservers change, whatever the queries meet;
\* and every batch of every domain builds its tasks on that same list.
C18_PoolFixedAfterValidation ==
    [][/\ \A i \in DOMAIN probe :
             /\ probe[i] \in {"ok", "failed", "error"} => probe'[i] = probe[i]
             /\ probe[i] = "running" => probe'[i] # "queued"
       /\ EngineState(pc) \in {"ProcessingDomains", "Terminated"} =>
             /\ ValidationFinished
             /\ probe' = probe
             /\ valid_nameservers' = valid_nameservers
       /\ (pc = "Batches" /\ pc' = "Gather") =>
             \A r \in Range(Addresses) :
                Cardinality({t \in DOMAIN tasks' : tasks'[t].nameserver = r})
                   = Count(valid_nameservers, r) * Len(subdomain_batches[batch_num'])]_vars

\* C18 witness: in the second domain the two valid nameservers are both in
\* use, after a query on one of them failed
C18_Witness ==
    /\ pc = "Write"
    /\ dom = 2
    /\ Cardinality(Range(valid_nameservers)) = 2
    /\ {tasks[t].nameserver : t \in DOMAIN tasks} = Range(valid_nameservers)
    /\ \E t \in DOMAIN tasks : tasks[t].a = "failed"

\* C19: a step changes the file of the current domain only, in the write of a
\* batch, and only by appending: the lines it had are a prefix of the lines it
\* has, and a file that exists goes on existing.
C19_OnlyOwnSinkAppended ==
    [][\A d \in Range(DomainNames) :
          files'[d] # files[d] =>
             /\ pc = "Write"
             /\ d = Domain
             /\ files[d].exists => files'[d].exists
             /\ Len(files'[d].lines) >= Len(files[d].lines)
             /\ SubSeq(files'[d].lines, 1, Len(files[d].lines)) = files[d].lines]_vars

\* C19 witness: the second batch of the second domain has added a line to a
\* file that had one, the first domain's file keeping its lines
C19_Witness ==
    /\ pc = "Batches"
    /\ dom = 2
    /\ domains[1] # domains[2]
    /\ batch_num = 2
    /\ Len(files[domains[2]].lines) = 2
    /\ files[domains[1]].lines # <<>>

\* C20: a domain's file exists as soon as one of its batches has been written,
\* whether or not the batch had a hit, and not before; without subdomains there
\* is no batch and no file.
C20_FileExistsIffBatchWritten ==
    /\ \A d \in Range(DomainNames) : files[d].exists <=> WrittenCount(d) > 0
    /\ subdomains = <<>> => \A d \in Range(DomainNames) : ~files[d].exists

\* C20 witness: the first batch of a domain had no hit and its file exists,
\* empty
C20_Witness ==
    /\ pc = "Batches"
    /\ batch_num = 1
    /\ unique_subdomains = {}
    /\ files[Domain].exists
    /\ files[Domain].lines = <<>>

====
